---------------------------- MODULE Spec2Model ----------------------------
(***************************************************************************)
(* label-studio-yolov5: the batch runner (predict.py, create_predictions)  *)
(* and the model adapter (model.py, Yolov5Model.predict).                  *)
(*                                                                         *)
(* The runner is a sequential process; its position is pc.  The platform   *)
(* (Label Studio) is the environment: it owns total_predictions of every   *)
(* task and answers each HTTP attempt with one of four outcomes.           *)
(***************************************************************************)
EXTENDS Integers, Sequences, FiniteSets, TLC

\* Number of tasks of the project (ids 1..NTasks, the platform's list order).
NTasks == 3

\* predict.py:46 sets page_size = 50; the model scales it down so that a
\* project of NTasks tasks is longer than one page.
page_size == 2

\* Most responses to the POSTs for one task that the network loses after the
\* platform has handled the request.
MaxLost == 1

\* predict.py:35, Retry(total=5, ...)
RetryTotal == 5

Tasks == 1..NTasks

\* Longest result list the detector returns in the model.
MaxDet == 2

\* Longest task list handed to one call of Yolov5Model.predict in the model.
MaxTasks == 2

\* Confidences, in thirds: 0.0, 0.33.., 0.66..
Confidences == {0, 1, 2}

\* Class names the detector knows.
Names == {"cat"}

\* The two threads or processes that may use the adapter.
Callers == {1, 2}

VARIABLES
    \* ---- environment of the runner
    scheme,             \* scheme of base_url: "https" or "http"
    view_id,            \* TRUE when a view_id was given (a view of tasks without predictions)
    faults,             \* TRUE when requests and the model may fail
    total_predictions,  \* platform: task id -> number of predictions it has
    created,            \* platform: task id -> predictions created by this run's POSTs
    \* ---- create_predictions
    pc,                 \* "start", "fetch", "task", "post", "done", "aborted", "crashed"
    total_task_count,   \* r["total"], the progress bar's max
    page,               \* tasks: the fetched page, a sequence of task records
    i,                  \* position of the for loop in page
    bar_index,          \* bar.index, counted from the fetch of the current page
    attempts,           \* attempts made so far for the request in flight
    surfaced,           \* the last exception a request surfaced to the loop
    invoked,            \* ids ever passed to model.predict
    page_invoked,       \* ids of the current page passed to model.predict
    page_returned,      \* ids of the current page for which model.predict returned
    page_posted,        \* ids of the current page for which a POST was sent
    \* ---- Yolov5Model and its callers
    confidence_threshold, \* self.confidence_threshold
    file,               \* /tmp/image: 0 when absent, else the image it holds
    callers,            \* the callers of predict that are running
    call_tasks,         \* caller -> the task list it passed to predict
    ppc,                \* caller -> "download", "model", "format", "finally",
                        \*           "returned", "raised"
    task_index,         \* caller -> position of predict's for loop in its tasks
    raising,            \* caller -> TRUE while an exception unwinds through finally
    model_input,        \* caller -> image the model read for the current task
                        \*           (0: not read yet, -1: no file at the path)
    model_results,      \* caller -> the detector's records for the current task
    predictions         \* caller -> the predictions list built so far

rvars == <<scheme, view_id, faults, total_predictions, created, pc, total_task_count,
           page, i, bar_index, attempts, surfaced, invoked, page_invoked,
           page_returned, page_posted>>

avars == <<confidence_threshold, file, callers, call_tasks, ppc, task_index, raising,
           model_input, model_results, predictions>>

vars == <<rvars, avars>>

NoException == [kind |-> "none", method |-> "none", attempts |-> 0]

-----------------------------------------------------------------------------
(* The platform's answer to GET /api/tasks *)

RECURSIVE SelectIds(_, _)
\* the ids n..NTasks that the view (or the whole project) lists, in order
SelectIds(n, tp) ==
    IF n > NTasks THEN <<>>
    ELSE IF view_id /\ tp[n] # 0 THEN SelectIds(n + 1, tp)
         ELSE <<n>> \o SelectIds(n + 1, tp)

\* Every request of the loop carries the same params: page_size and project
\* (and view); no page number is ever sent, so the platform answers with the
\* first page_size tasks of the list.
TaskListPage(size, tp) ==
    LET ids == SelectIds(1, tp)
        n == IF Len(ids) < size THEN Len(ids) ELSE size
    IN [k \in 1..n |-> [id |-> ids[k], total_predictions |-> tp[ids[k]]]]

TaskListTotal(tp) == Len(SelectIds(1, tp))

-----------------------------------------------------------------------------
(* The session and its retry policy *)

\* session.mount("https://", HTTPAdapter(max_retries=retries)): the policy is
\* mounted for the https:// prefix only; an http:// url keeps the session's
\* default adapter, whose max_retries is 0.
Retries(s) == IF s = "https" THEN RetryTotal ELSE 0

\* What one attempt can meet:
\*   "ok"       the platform handled the request and answered 2xx
\*   "status"   the platform answered with an HTTP error status
\*   "connfail" the request never reached the platform (connection error)
\*   "lost"     the platform handled the request, the response timed out
Outcomes == IF faults THEN {"ok", "status", "connfail", "lost"} ELSE {"ok"}

\* What the session makes of attempt number a meeting outcome o.  No
\* status_forcelist is set, so a response with an error status is returned
\* (raise_for_status then raises HTTPError); a connection or read error is
\* retried while retries are left (GET and POST are both allowed methods) and
\* surfaces otherwise as a requests exception that is not an HTTPError.
SendResult(o, a) ==
    IF o = "ok" THEN "response"
    ELSE IF o = "status" THEN "HTTPError"
    ELSE IF a <= Retries(scheme) THEN "retry"
    ELSE "ConnectionError"

ModelOutcomes == IF faults THEN {"returns", "raises"} ELSE {"returns"}

-----------------------------------------------------------------------------
(* create_predictions *)

\* the skip test dropped: every fetched task is taken for an unpredicted one
NeedsPredictionAlways(task) == TRUE

\* task["total_predictions"] == 0
NeedsPrediction(task) == task.total_predictions = 0

\* the for loop moves to the next task, or, after the last one, the while
\* loop goes back to the fetch
NextPc(k) == IF k + 1 <= Len(page) THEN "task" ELSE "fetch"

\* lines 53-58: the first GET (page_size 1), outside any try
GetTotal ==
    /\ pc = "start"
    /\ \E o \in Outcomes :
         LET a == attempts + 1
             r == SendResult(o, a)
         IN CASE r = "retry" ->
                   /\ attempts' = a
                   /\ UNCHANGED <<pc, total_task_count, surfaced>>
              [] r = "response" ->
                   /\ attempts' = 0
                   /\ total_task_count' = TaskListTotal(total_predictions)
                   /\ pc' = "fetch"
                   /\ UNCHANGED surfaced
              [] OTHER ->
                   /\ attempts' = 0
                   /\ surfaced' = [kind |-> r, method |-> "GET", attempts |-> a]
                   /\ pc' = "crashed"
                   /\ UNCHANGED total_task_count
    /\ UNCHANGED <<scheme, view_id, faults, total_predictions, created, page, i,
                   bar_index, invoked, page_invoked, page_returned, page_posted>>
    /\ UNCHANGED avars

\* lines 70-79 and 121-123: fetch a batch inside the try of the while loop
Fetch ==
    /\ pc = "fetch"
    /\ \E o \in Outcomes :
         LET a == attempts + 1
             r == SendResult(o, a)
             tasks == TaskListPage(page_size, total_predictions)
         IN CASE r = "retry" ->
                   /\ attempts' = a
                   /\ UNCHANGED <<pc, page, i, bar_index, surfaced, page_invoked,
                                  page_returned, page_posted>>
              [] r = "response" ->
                   /\ attempts' = 0
                   /\ page' = tasks
                   /\ i' = 1
                   /\ bar_index' = 0
                   /\ page_invoked' = {}
                   /\ page_returned' = {}
                   /\ page_posted' = {}
                   /\ pc' = IF Len(tasks) = 0 THEN "done" ELSE "task"
                   /\ UNCHANGED surfaced
              [] OTHER ->
                   /\ attempts' = 0
                   /\ surfaced' = [kind |-> r, method |-> "GET", attempts |-> a]
                   /\ pc' = "aborted"
                   /\ UNCHANGED <<page, i, bar_index, page_invoked, page_returned,
                                  page_posted>>
    /\ UNCHANGED <<scheme, view_id, faults, total_predictions, created,
                   total_task_count, invoked>>
    /\ UNCHANGED avars

\* lines 85-97 and 116-120: one iteration of the for loop up to the POST
Task ==
    /\ pc = "task"
    /\ LET task == page[i] IN
         IF NeedsPrediction(task)
         THEN \E m \in ModelOutcomes :
                /\ invoked' = invoked \cup {task.id}
                /\ page_invoked' = page_invoked \cup {task.id}
                /\ IF m = "returns"
                   THEN /\ page_returned' = page_returned \cup {task.id}
                        /\ pc' = "post"
                        /\ UNCHANGED <<i, bar_index>>
                   ELSE \* except Exception: log, continue
                        /\ i' = i + 1
                        /\ pc' = NextPc(i)
                        /\ UNCHANGED <<page_returned, bar_index>>
         ELSE \* skipped; bar.next()
              /\ bar_index' = bar_index + 1
              /\ i' = i + 1
              /\ pc' = NextPc(i)
              /\ UNCHANGED <<invoked, page_invoked, page_returned>>
    /\ UNCHANGED <<scheme, view_id, faults, total_predictions, created,
                   total_task_count, page, attempts, surfaced, page_posted>>
    /\ UNCHANGED avars

\* What an attempt of the POST for task id can meet.
PostOutcomes(id) == {o \in Outcomes : o = "lost" => created[id] < MaxLost}

\* lines 99-115 and 119-123: create the prediction, then bar.next()
Post ==
    /\ pc = "post"
    /\ \E o \in PostOutcomes(page[i].id) :
         LET a == attempts + 1
             r == SendResult(o, a)
             id == page[i].id
             handled == o \in {"ok", "lost"}
         IN /\ page_posted' = page_posted \cup {id}
            /\ created' = IF handled THEN [created EXCEPT ![id] = @ + 1] ELSE created
            /\ total_predictions' =
                 IF handled THEN [total_predictions EXCEPT ![id] = @ + 1]
                 ELSE total_predictions
            /\ CASE r = "retry" ->
                      /\ attempts' = a
                      /\ UNCHANGED <<pc, i, bar_index, surfaced>>
                 [] r = "response" ->
                      /\ attempts' = 0
                      /\ bar_index' = bar_index + 1
                      /\ i' = i + 1
                      /\ pc' = NextPc(i)
                      /\ UNCHANGED surfaced
                 [] r = "HTTPError" ->
                      \* except requests.exceptions.HTTPError: log
                      /\ attempts' = 0
                      /\ surfaced' = [kind |-> r, method |-> "POST", attempts |-> a]
                      /\ bar_index' = bar_index + 1
                      /\ i' = i + 1
                      /\ pc' = NextPc(i)
                 [] OTHER ->
                      \* not an HTTPError: the outer except logs and breaks
                      /\ attempts' = 0
                      /\ surfaced' = [kind |-> r, method |-> "POST", attempts |-> a]
                      /\ pc' = "aborted"
                      /\ UNCHANGED <<i, bar_index>>
    /\ UNCHANGED <<scheme, view_id, faults, total_task_count, page, invoked,
                   page_invoked, page_returned>>
    /\ UNCHANGED avars

-----------------------------------------------------------------------------
(* Yolov5Model.predict *)

\* The image a caller's n-th task refers to; every task has its own image.
ImageOf(c, n) == 10 * c + n

\* How a task names its image:
\*   "storage_filename"  task["storage_filename"] is set
\*   "s3uri"             data.image is s3://bucket/key
\*   "nomatch"           data.image does not match FILEPATH_REGEX
TaskKinds == {"storage_filename", "s3uri", "nomatch"}

Detections == [name : Names, confidence : Confidences]

SeqsUpTo(S, n) == UNION {[1..m -> S] : m \in 0..n}

\* the comparison written >= instead of >
KeepAtThreshold(result, threshold) == result.confidence >= threshold

\* result["confidence"] > self.confidence_threshold
Keep(result, threshold) == result.confidence > threshold

\* The annotation built for one kept record (the box is left to the detector's
\* numbers; label and score are what the record carries).
Annotation(result) ==
    [from_name |-> "label", to_name |-> "image", type |-> "rectanglelabels",
     value |-> [rectanglelabels |-> <<result.name>>],
     score |-> result.confidence]

RECURSIVE FormatFrom(_, _, _, _)
\* the for loop of lines 88-112, from record n on, results being built so far
FormatFrom(records, n, threshold, results) ==
    IF n > Len(records) THEN results
    ELSE FormatFrom(records, n + 1, threshold,
                    IF Keep(records[n], threshold)
                    THEN Append(results, Annotation(records[n]))
                    ELSE results)

FormatResults(records, threshold) == FormatFrom(records, 1, threshold, <<>>)

\* the unlink placed at the end of the try body instead of in a finally clause
AfterTryBody(f, raised) == IF raised THEN f ELSE 0

\* What the finally clause leaves at the path: Path(image).unlink(missing_ok=True)
\* runs whether or not the try body raised.
AfterFinally(f, raised) == 0

\* lines 69-79: find bucket and filename, then download the image
Download(c) ==
    /\ c \in callers
    /\ ppc[c] = "download"
    /\ LET task == call_tasks[c][task_index[c]] IN
         IF task = "nomatch"
         THEN \* FILEPATH_REGEX.match(...) is None: raised before the try
              /\ ppc' = [ppc EXCEPT ![c] = "raised"]
              /\ UNCHANGED <<file, raising, model_input>>
         ELSE \/ /\ file' = ImageOf(c, task_index[c])
                 /\ model_input' = [model_input EXCEPT ![c] = 0]
                 /\ ppc' = [ppc EXCEPT ![c] = "model"]
                 /\ UNCHANGED raising
              \/ \* download_file raises
                 /\ raising' = [raising EXCEPT ![c] = TRUE]
                 /\ model_input' = [model_input EXCEPT ![c] = 0]
                 /\ ppc' = [ppc EXCEPT ![c] = "finally"]
                 /\ UNCHANGED file
    /\ UNCHANGED <<confidence_threshold, callers, call_tasks, task_index,
                   model_results, predictions>>
    /\ UNCHANGED rvars

\* lines 80-84: run the detector on the path
RunModel(c) ==
    /\ c \in callers
    /\ ppc[c] = "model"
    /\ IF file = 0
       THEN \* nothing at /tmp/image: the detector raises
            /\ model_input' = [model_input EXCEPT ![c] = -1]
            /\ raising' = [raising EXCEPT ![c] = TRUE]
            /\ ppc' = [ppc EXCEPT ![c] = "finally"]
            /\ UNCHANGED model_results
       ELSE /\ model_input' = [model_input EXCEPT ![c] = file]
            /\ \/ \E records \in SeqsUpTo(Detections, MaxDet) :
                    /\ model_results' = [model_results EXCEPT ![c] = records]
                    /\ ppc' = [ppc EXCEPT ![c] = "format"]
                    /\ UNCHANGED raising
               \/ /\ raising' = [raising EXCEPT ![c] = TRUE]
                  /\ ppc' = [ppc EXCEPT ![c] = "finally"]
                  /\ UNCHANGED model_results
    /\ UNCHANGED <<confidence_threshold, file, callers, call_tasks, task_index,
                   predictions>>
    /\ UNCHANGED rvars

\* lines 86-116: format the records and append the prediction
Format(c) ==
    /\ c \in callers
    /\ ppc[c] = "format"
    /\ \/ /\ predictions' =
               [predictions EXCEPT ![c] =
                  Append(@, [result |-> FormatResults(model_results[c],
                                                      confidence_threshold),
                             model_version |-> "model_name"])]
          /\ UNCHANGED raising
       \/ \* a record the loop cannot format
          /\ raising' = [raising EXCEPT ![c] = TRUE]
          /\ UNCHANGED predictions
    /\ ppc' = [ppc EXCEPT ![c] = "finally"]
    /\ UNCHANGED <<confidence_threshold, file, callers, call_tasks, task_index,
                   model_input, model_results>>
    /\ UNCHANGED rvars

\* lines 117-121: delete the image; then re-raise, take the next task, or return
Finally(c) ==
    /\ c \in callers
    /\ ppc[c] = "finally"
    /\ file' = AfterFinally(file, raising[c])
    /\ raising' = [raising EXCEPT ![c] = FALSE]
    /\ IF raising[c]
       THEN /\ ppc' = [ppc EXCEPT ![c] = "raised"]
            /\ UNCHANGED task_index
       ELSE IF task_index[c] < Len(call_tasks[c])
       THEN /\ ppc' = [ppc EXCEPT ![c] = "download"]
            /\ task_index' = [task_index EXCEPT ![c] = @ + 1]
       ELSE /\ ppc' = [ppc EXCEPT ![c] = "returned"]
            /\ UNCHANGED task_index
    /\ UNCHANGED <<confidence_threshold, callers, call_tasks, model_input,
                   model_results, predictions>>
    /\ UNCHANGED rvars

\* The adapter at rest, as the runner's specifications leave it.
AdapterIdle ==
    /\ confidence_threshold = 0
    /\ file = 0
    /\ callers = {}
    /\ call_tasks = [c \in Callers |-> <<>>]
    /\ ppc = [c \in Callers |-> "returned"]
    /\ task_index = [c \in Callers |-> 1]
    /\ raising = [c \in Callers |-> FALSE]
    /\ model_input = [c \in Callers |-> 0]
    /\ model_results = [c \in Callers |-> <<>>]
    /\ predictions = [c \in Callers |-> <<>>]

\* The runner before its first request, as the adapter's specifications leave it.
RunnerIdle ==
    /\ scheme = "https"
    /\ view_id = FALSE
    /\ faults = TRUE
    /\ total_predictions = [t \in Tasks |-> 0]
    /\ created = [t \in Tasks |-> 0]
    /\ pc = "start"
    /\ total_task_count = 0
    /\ page = <<>>
    /\ i = 1
    /\ bar_index = 0
    /\ attempts = 0
    /\ surfaced = NoException
    /\ invoked = {}
    /\ page_invoked = {}
    /\ page_returned = {}
    /\ page_posted = {}

\* One or more calls of predict, each with a non-empty task list of its own.
AdapterInit(cs, maxlen) ==
    /\ confidence_threshold \in Confidences
    /\ file = 0
    /\ callers = cs
    /\ call_tasks \in [Callers -> SeqsUpTo(TaskKinds, maxlen)]
    /\ \A c \in Callers : (call_tasks[c] # <<>>) <=> (c \in cs)
    /\ ppc = [c \in Callers |-> IF c \in cs THEN "download" ELSE "returned"]
    /\ task_index = [c \in Callers |-> 1]
    /\ raising = [c \in Callers |-> FALSE]
    /\ model_input = [c \in Callers |-> 0]
    /\ model_results = [c \in Callers |-> <<>>]
    /\ predictions = [c \in Callers |-> <<>>]

PredictNext == \E c \in Callers : Download(c) \/ RunModel(c) \/ Format(c) \/ Finally(c)

\* One call of predict at a time, as create_predictions makes them.
InitPredict == RunnerIdle /\ AdapterInit({1}, MaxTasks)

SpecPredict == InitPredict /\ [][PredictNext]_vars

\* Two calls of predict at the same time, one task each.
InitConcurrent == RunnerIdle /\ AdapterInit(Callers, 1)

SpecConcurrent == InitConcurrent /\ [][PredictNext]_vars

RunnerInit ==
    /\ scheme \in {"https", "http"}
    /\ view_id \in BOOLEAN
    /\ total_predictions \in [Tasks -> {0, 1}]
    /\ created = [t \in Tasks |-> 0]
    /\ pc = "start"
    /\ total_task_count = 0
    /\ page = <<>>
    /\ i = 1
    /\ bar_index = 0
    /\ attempts = 0
    /\ surfaced = NoException
    /\ invoked = {}
    /\ page_invoked = {}
    /\ page_returned = {}
    /\ page_posted = {}

Init == RunnerInit /\ faults = TRUE /\ AdapterIdle

Next == GetTotal \/ Fetch \/ Task \/ Post

Spec == Init /\ [][Next]_vars

\* A run against a platform and a model that never fail; the runner is one
\* sequential process that keeps executing while it has a step to take.
InitReliable == RunnerInit /\ faults = FALSE /\ AdapterIdle

LiveSpec == InitReliable /\ [][Next]_vars /\ WF_vars(Next)

-----------------------------------------------------------------------------
(* Properties *)

\* C1: every task whose total_predictions is 0 is eventually passed to
\* Yolov5Model.predict, whatever its place in the list (the runner walks
\* every page, not only the first).
C1_EveryUnpredictedTaskReachesModel ==
    \A t \in Tasks : (total_predictions[t] = 0) ~> (t \in invoked)

\* C2: a fetched task whose total_predictions is not 0 is neither passed to
\* the model nor posted, and every POST carries the id of a task of the page
\* that was fetched with total_predictions = 0 and for which the model returned.
C2_SkipsPredictedTasks ==
    /\ \A n \in 1..Len(page) :
         page[n].total_predictions # 0 =>
            /\ page[n].id \notin page_invoked
            /\ page[n].id \notin page_posted
    /\ \A id \in page_posted :
         /\ id \in page_returned
         /\ \E n \in 1..Len(page) :
              page[n].id = id /\ page[n].total_predictions = 0

\* a page holding a task with predictions that the loop has passed, and a
\* task for which a POST was sent
C2_Witness ==
    /\ page_posted # {}
    /\ \E n \in 1..Len(page) : n < i /\ page[n].total_predictions # 0

\* C3: no failure of the model or of the POST for one task ends the run: a
\* step of the for loop never leaves the loop by the outer handler.
C3_TaskFailureNeverEndsRun ==
    [][(pc \in {"task", "post"}) => (pc' \notin {"aborted", "crashed"})]_vars

\* C4: once predict has handled a task (it went on to the next task, returned
\* or raised), nothing is at /tmp/image.
C4_NoTempFileLeft ==
    \A c \in callers :
       (\/ ppc[c] \in {"returned", "raised"}
        \/ ppc[c] = "download" /\ task_index[c] > 1) => file = 0

\* predict raised after the image had been downloaded and read
C4_Witness ==
    \E c \in callers : ppc[c] = "raised" /\ model_input[c] > 0 /\ file = 0

\* the positions, in the detector's list, of the records above the threshold
KeptPositions(records) ==
    {n \in 1..Len(records) : records[n].confidence > confidence_threshold}

\* C5: the result list of a task holds one annotation per record whose
\* confidence is strictly above the threshold, in the detector's order, with
\* that record's confidence as score and its name as label.
C5_ResultIsRecordsAboveThreshold ==
    \A c \in callers :
       Len(predictions[c]) = task_index[c] =>
          LET result == predictions[c][task_index[c]].result
              records == model_results[c]
              kept == KeptPositions(records)
          IN /\ Len(result) = Cardinality(kept)
             /\ \A n \in kept :
                  LET m == Cardinality({x \in kept : x <= n})
                  IN /\ result[m].score = records[n].confidence
                     /\ result[m].value.rectanglelabels = <<records[n].name>>

\* a prediction made from a record at the threshold and a record above it
C5_Witness ==
    \E c \in callers :
       /\ Len(predictions[c]) = task_index[c]
       /\ Len(predictions[c][task_index[c]].result) = 1
       /\ \E n, m \in 1..Len(model_results[c]) :
            /\ model_results[c][n].confidence = confidence_threshold
            /\ model_results[c][m].confidence > confidence_threshold

\* C6: the fetch loop eventually receives an empty page, logs Done and stops.
C6_EventuallyDone == <>(pc = "done")

\* C7: a request that fails at the connection level surfaces to the loop
\* only after it was re-attempted, and after at most 1 + 5 attempts.
C7_TransientFailureIsRetried ==
    /\ attempts <= RetryTotal + 1
    /\ surfaced.kind = "ConnectionError" =>
          surfaced.attempts >= 2 /\ surfaced.attempts <= RetryTotal + 1

\* C8: one run creates at most one prediction for any task.
C8_AtMostOnePredictionPerTask == \A t \in Tasks : created[t] <= 1

\* C9: the image the model reads for a task is the image downloaded for that
\* task, and the file is there when the model reads it.
C9_ModelReadsOwnImage ==
    \A c \in callers :
       ppc[c] \in {"model", "format", "finally"} =>
          model_input[c] \in {0, ImageOf(c, task_index[c])}

\* C10: when a page has been processed to its end, the bar has advanced by
\* the number of tasks of the page.
C10_BarAdvancesOncePerTask ==
    (pc = "fetch" /\ page # <<>>) => bar_index = Len(page)

=============================================================================
